---- MODULE Spec2Model ----
(***************************************************************************)
(* Model of fastchat/serve/cacheflow_worker.py: the worker's start-up and  *)
(* registration, the heartbeat thread, the admission semaphore of the      *)
(* /worker_generate_stream endpoint, and the generation loop that drives   *)
(* the shared batching engine one step at a time.                          *)
(*                                                                         *)
(* Each request runs the synchronous generator generate_stream_gate; the   *)
(* transport iterates a synchronous generator on worker threads, so the    *)
(* generators of different requests interleave at statement granularity.   *)
(* The engine (server.add_sequence_groups / server.step), the semaphore    *)
(* and the id counter are library primitives: each call is one atomic      *)
(* effect, and a table entry holds the value the step returned.            *)
(***************************************************************************)
EXTENDS Integers, Sequences, FiniteSets, TLC

\* ---------------------------------------------------------------- bounds
NumSessions == 3
LimitModelConcurrency == 2
MaxNewTokens == 3
MaxTextLen == 3

Sess == 1..NumSessions
GroupIds == 0..(NumSessions - 1)
NoGroup == -1

\* server_error_msg of fastchat.utils, as carried by the error chunk
server_error_msg == "SERVER_ERROR"
\* the tokenizer's special tokens, which decode(skip_special_tokens=True) drops
SpecialTokens == {0, 1}
\* tokenizer(context).input_ids of the requests: the begin-of-sequence token
\* and one prompt token
PromptIds == <<1, 5>>

VARIABLES
    no_register,         \* args.no_register
    main,                \* position of __main__: "init", "constructed", "serving", "crashed"
    hb,                  \* position of the heart_beat_worker thread
    startRegCalls,       \* register_worker calls made by __init__
    startResp,           \* what the controller answered to that call
    lastAnswer,          \* "exist" of the last heartbeat answer: "none", "true", "false"
    regSince,            \* register_worker calls made since that answer
    model_semaphore,     \* [created, value, waiters]
    pc,                  \* position of each request
    group_id,            \* local group_id of each request's generator
    seq_group_counter,   \* self.seq_group_counter
    is_server_running,   \* self.is_server_running
    running_seq_groups,  \* self.running_seq_groups: group id -> SequenceGroup
    engine,              \* the groups held by self.server
    updated_seq_groups,  \* local updated_seq_groups of each request inside server_step
    last,                \* the last chunk each request emitted
    nErr,                \* error chunks each request emitted
    postFinal,           \* a chunk followed a final chunk of the request
    nSubmit,             \* add_sequence_groups calls of each request
    releases,            \* semaphore releases made for each request
    oomBy,               \* requests whose server.step() raised OutOfMemoryError
    stepped,             \* a server.step() returned since the request's last chunk
    call                 \* the last request encoded or text post-processed on its own

ctlVars == <<no_register, main, hb, startRegCalls, startResp, lastAnswer, regSince>>
semVars == <<model_semaphore, releases>>
genVars == <<group_id, seq_group_counter, is_server_running, running_seq_groups,
             engine, updated_seq_groups, nSubmit, oomBy>>
outVars == <<last, nErr, postFinal, stepped, call>>
vars == <<no_register, main, hb, startRegCalls, startResp, lastAnswer, regSince,
          model_semaphore, pc, group_id, seq_group_counter, is_server_running,
          running_seq_groups, engine, updated_seq_groups, last, nErr, postFinal,
          nSubmit, releases, oomBy, stepped, call>>

NoChunk == [error_code |-> -1, text |-> "", tokens |-> <<>>, finished |-> FALSE]
NoUpdates == <<>>
NoCall == [op |-> "none"]

Init ==
    /\ no_register \in BOOLEAN
    /\ main = "init"
    /\ hb = "off"
    /\ startRegCalls = 0
    /\ startResp = "none"
    /\ lastAnswer = "none"
    /\ regSince = 0
    /\ model_semaphore = [created |-> FALSE, value |-> 0, waiters |-> <<>>]
    /\ pc = [s \in Sess |-> "idle"]
    /\ group_id = [s \in Sess |-> NoGroup]
    /\ seq_group_counter = 0
    /\ is_server_running = FALSE
    /\ running_seq_groups = <<>>
    /\ engine = <<>>
    /\ updated_seq_groups = [s \in Sess |-> NoUpdates]
    /\ last = [s \in Sess |-> NoChunk]
    /\ nErr = [s \in Sess |-> 0]
    /\ postFinal = [s \in Sess |-> FALSE]
    /\ nSubmit = [s \in Sess |-> 0]
    /\ releases = [s \in Sess |-> 0]
    /\ oomBy = {}
    /\ stepped = [s \in Sess |-> FALSE]
    /\ call = NoCall

\* ------------------------------------------------- registration, heartbeat
\* What the controller does with a POST to /register_worker.
RegisterResponses == {"200", "500", "unreachable"}
\* What the controller does with a POST to /receive_heart_beat.
HeartBeatResponses == {"exist_true", "exist_false", "no_exist_key", "unreachable"}

RegisterAcked_any(resp) == TRUE

\* register_to_controller returns only when the post returned and the assert held
RegisterAcked(resp) == resp = "200"

\* __init__, lines 129-133, reached from __main__ line 373
Construct(resp) ==
    /\ main = "init"
    /\ IF no_register
       THEN /\ main' = "constructed"
            /\ UNCHANGED <<hb, startRegCalls, startResp>>
       ELSE /\ startRegCalls' = startRegCalls + 1
            /\ startResp' = resp
            /\ IF RegisterAcked(resp)
               THEN main' = "constructed" /\ hb' = "sleep"
               ELSE main' = "crashed" /\ hb' = hb
    /\ UNCHANGED <<no_register, lastAnswer, regSince, pc>>
    /\ UNCHANGED <<semVars, genVars, outVars>>

\* uvicorn.run, line 386
Serve ==
    /\ main = "constructed"
    /\ main' = "serving"
    /\ UNCHANGED <<no_register, hb, startRegCalls, startResp, lastAnswer, regSince, pc>>
    /\ UNCHANGED <<semVars, genVars, outVars>>

\* heart_beat_worker: the sleep is over and send_heart_beat is called
HbTick ==
    /\ hb = "sleep"
    /\ hb' = "post"
    /\ UNCHANGED <<no_register, main, startRegCalls, startResp, lastAnswer, regSince, pc>>
    /\ UNCHANGED <<semVars, genVars, outVars>>

\* send_heart_beat: requests.post is issued
HbSend ==
    /\ hb = "post"
    /\ hb' = "await"
    /\ UNCHANGED <<no_register, main, startRegCalls, startResp, lastAnswer, regSince, pc>>
    /\ UNCHANGED <<semVars, genVars, outVars>>

NeedsRegister_always(exist) == TRUE

\* line 165
NeedsRegister(exist) == ~exist

\* send_heart_beat: the post returns or raises
HbRecv(resp) ==
    /\ hb = "await"
    /\ CASE resp = "unreachable" ->
              hb' = "backoff" /\ UNCHANGED <<lastAnswer, regSince>>
         [] resp = "no_exist_key" ->
              hb' = "dead" /\ UNCHANGED <<lastAnswer, regSince>>
         [] OTHER ->
              /\ lastAnswer' = IF resp = "exist_true" THEN "true" ELSE "false"
              /\ regSince' = 0
              /\ hb' = IF NeedsRegister(resp = "exist_true") THEN "register" ELSE "sleep"
    /\ UNCHANGED <<no_register, main, startRegCalls, startResp, pc>>
    /\ UNCHANGED <<semVars, genVars, outVars>>

\* send_heart_beat: time.sleep(5) after a RequestException, then the loop
HbBackoff ==
    /\ hb = "backoff"
    /\ hb' = "post"
    /\ UNCHANGED <<no_register, main, startRegCalls, startResp, lastAnswer, regSince, pc>>
    /\ UNCHANGED <<semVars, genVars, outVars>>

\* send_heart_beat line 166: register_to_controller on the heartbeat thread
HbRegister(resp) ==
    /\ hb = "register"
    /\ regSince' = regSince + 1
    /\ hb' = IF RegisterAcked(resp) THEN "sleep" ELSE "dead"
    /\ UNCHANGED <<no_register, main, startRegCalls, startResp, lastAnswer, pc>>
    /\ UNCHANGED <<semVars, genVars, outVars>>

\* ------------------------------------------------------------ the engine
\* the groups of the engine that server.step() can still advance
Unfinished(e) == {g \in DOMAIN e : ~e[g].finished}

\* the token the (deterministic) sampler extends a sequence by
NextToken(tokens) == 2 + (Len(tokens) % 2)

\* one scheduling round for one group; max_num_steps = max_new_tokens (line 214)
StepGroup(grp) ==
    LET tokens == Append(grp.tokens, NextToken(grp.tokens))
    IN  [tokens |-> tokens,
         finished |-> Len(tokens) - Len(PromptIds) >= MaxNewTokens]

\* the groups a round of server.step() can advance: the engine batches every
\* group it still runs, or schedules nothing in this round
Schedules(e) == {{}, Unfinished(e)}

\* server.step(): the engine after a round that advanced the groups sched
EngineAfter(e, sched) ==
    [g \in DOMAIN e |-> IF g \in sched THEN StepGroup(e[g]) ELSE e[g]]

\* server.step(): the groups it returns, those the round advanced
Restrict(e, sched) == [g \in sched |-> e[g]]

\* ---------------------------------------------------------- the semaphore
\* asyncio.Semaphore(args.limit_model_concurrency), line 333
NewSemaphore == [created |-> TRUE, value |-> LimitModelConcurrency, waiters |-> <<>>]

\* the semaphore that acquire() sees, lines 332-334
Created(sm) == IF sm.created THEN sm ELSE NewSemaphore

MustWait_never(sm) == FALSE

\* acquire() suspends while this holds
MustWait(sm) == sm.value <= 0

\* requests that have passed acquire() and for which release() has not run
Holding(s) ==
    pc[s] \in {"admitted", "loop", "call", "instep", "fanout", "read",
               "finished", "failed", "disconnected", "aborted"}

\* request bodies: with a prompt, or without one (params["prompt"], line 199)
Params == {"prompt", "no_prompt"}

Emit(s, chunk) ==
    /\ last' = [last EXCEPT ![s] = chunk]
    /\ nErr' = [nErr EXCEPT ![s] = @ + (IF chunk.error_code = 1 THEN 1 ELSE 0)]
    /\ postFinal' = [postFinal EXCEPT ![s] =
           @ \/ last[s].error_code = 1 \/ last[s].finished]
    /\ stepped' = [stepped EXCEPT ![s] = FALSE]
    /\ UNCHANGED call

\* endpoint generate_stream, lines 327-334: the request reaches acquire()
Arrive(s) ==
    /\ main = "serving"
    /\ pc[s] = "idle"
    /\ LET sm == Created(model_semaphore)
       IN  IF MustWait(sm)
           THEN /\ model_semaphore' = [sm EXCEPT !.waiters = Append(@, s)]
                /\ pc' = [pc EXCEPT ![s] = "waiting"]
           ELSE /\ model_semaphore' = [sm EXCEPT !.value = @ - 1]
                /\ pc' = [pc EXCEPT ![s] = "admitted"]
    /\ UNCHANGED <<ctlVars, releases, genVars, outVars>>

\* endpoint generate_stream, lines 327-334: a further request of a client
\* whose earlier request is over reaches acquire()
ArriveAgain(s) ==
    /\ main = "serving"
    /\ pc[s] = "closed"
    /\ releases' = [releases EXCEPT ![s] = 0]
    /\ IF MustWait(model_semaphore)
       THEN /\ model_semaphore' = [model_semaphore EXCEPT !.waiters = Append(@, s)]
            /\ pc' = [pc EXCEPT ![s] = "waiting"]
       ELSE /\ model_semaphore' = [model_semaphore EXCEPT !.value = @ - 1]
            /\ pc' = [pc EXCEPT ![s] = "admitted"]
    /\ UNCHANGED <<ctlVars, genVars, outVars>>

\* get_queue_length, lines 168-173
get_queue_length ==
    IF ~model_semaphore.created
    THEN 0
    ELSE LimitModelConcurrency - model_semaphore.value + Len(model_semaphore.waiters)

\* acquire(): a woken waiter runs its loop again
Woken(s) ==
    /\ pc[s] = "woken"
    /\ IF MustWait(model_semaphore)
       THEN /\ model_semaphore' = [model_semaphore EXCEPT !.waiters = Append(@, s)]
            /\ pc' = [pc EXCEPT ![s] = "waiting"]
       ELSE /\ model_semaphore' = [model_semaphore EXCEPT !.value = @ - 1]
            /\ pc' = [pc EXCEPT ![s] = "admitted"]
    /\ UNCHANGED <<ctlVars, releases, genVars, outVars>>

CounterNext_stuck(counter) == counter

\* next(self.seq_group_counter), line 226: the counter once it has handed
\* out its value
CounterNext(counter) == counter + 1

\* CacheFlowWorker.generate_stream lines 197-230: the first next() of the
\* generator, up to the submission of the group
Start(s, params) ==
    /\ pc[s] = "admitted"
    /\ IF params = "no_prompt"
       THEN /\ pc' = [pc EXCEPT ![s] = "aborted"]
            /\ UNCHANGED <<genVars>>
       ELSE /\ group_id' = [group_id EXCEPT ![s] = seq_group_counter]
            /\ seq_group_counter' = CounterNext(seq_group_counter)
            /\ engine' = (seq_group_counter :>
                             [tokens |-> PromptIds, finished |-> FALSE]) @@ engine
            /\ nSubmit' = [nSubmit EXCEPT ![s] = @ + 1]
            /\ pc' = [pc EXCEPT ![s] = "loop"]
            /\ UNCHANGED <<is_server_running, running_seq_groups,
                           updated_seq_groups, oomBy>>
    /\ UNCHANGED <<ctlVars, semVars, outVars>>

\* line 232
Check(s) ==
    /\ pc[s] = "loop"
    /\ pc' = [pc EXCEPT ![s] = IF ~is_server_running THEN "call" ELSE "read"]
    /\ UNCHANGED <<ctlVars, semVars, genVars, outVars>>

\* server_step line 183
Call(s) ==
    /\ pc[s] = "call"
    /\ is_server_running' = TRUE
    /\ pc' = [pc EXCEPT ![s] = "instep"]
    /\ UNCHANGED <<group_id, seq_group_counter, running_seq_groups, engine,
                   updated_seq_groups, nSubmit, oomBy>>
    /\ UNCHANGED <<ctlVars, semVars, outVars>>

\* requests inside the loop of lines 231-252 that have yielded a chunk
Streaming(s) ==
    /\ pc[s] \in {"loop", "call", "instep", "fanout", "read"}
    /\ last[s].error_code = 0

\* server_step lines 184-185: self.server.step() runs a round and returns,
\* and the flag is cleared
EngineStep(s, sched) ==
    /\ pc[s] = "instep"
    /\ sched \in Schedules(engine)
    /\ engine' = EngineAfter(engine, sched)
    /\ updated_seq_groups' = [updated_seq_groups EXCEPT ![s] = Restrict(engine', sched)]
    /\ is_server_running' = FALSE
    /\ pc' = [pc EXCEPT ![s] = "fanout"]
    /\ stepped' = [t \in Sess |-> stepped[t] \/ Streaming(t)]
    /\ UNCHANGED <<group_id, seq_group_counter, running_seq_groups, nSubmit, oomBy>>
    /\ UNCHANGED <<ctlVars, semVars, last, nErr, postFinal, call>>

\* generate_stream_gate lines 312-316
ErrorChunk ==
    [error_code |-> 1, text |-> server_error_msg, tokens |-> <<>>, finished |-> FALSE]

AfterOutOfMemory_retry == "loop"

\* generate_stream_gate: where the generator is once the except clause has run
AfterOutOfMemory == "failed"

\* server_step line 184 raises torch.cuda.OutOfMemoryError; it leaves
\* server_step and generate_stream and is caught at line 311
EngineStepOOM(s) ==
    /\ pc[s] = "instep"
    /\ oomBy' = oomBy \cup {s}
    /\ Emit(s, ErrorChunk)
    /\ pc' = [pc EXCEPT ![s] = AfterOutOfMemory]
    /\ UNCHANGED <<group_id, seq_group_counter, is_server_running,
                   running_seq_groups, engine, updated_seq_groups, nSubmit>>
    /\ UNCHANGED <<ctlVars, semVars>>

\* server_step lines 186-188
FanOut(s) ==
    /\ pc[s] = "fanout"
    /\ running_seq_groups' = updated_seq_groups[s] @@ running_seq_groups
    /\ updated_seq_groups' = [updated_seq_groups EXCEPT ![s] = NoUpdates]
    /\ pc' = [pc EXCEPT ![s] = "read"]
    /\ UNCHANGED <<group_id, seq_group_counter, is_server_running, engine,
                   nSubmit, oomBy>>
    /\ UNCHANGED <<ctlVars, semVars, outVars>>

\* tokenizer.decode(token_ids, skip_special_tokens=True), line 240
Decode(tokens) == SelectSeq(tokens, LAMBDA t : t \notin SpecialTokens)

\* lines 237-249: the chunk built from the group that was read
Chunk(grp) ==
    [error_code |-> 0, text |-> Decode(grp.tokens), tokens |-> grp.tokens,
     finished |-> grp.finished]

LoopExit_inverted(chunk) == ~chunk.finished

\* line 251
LoopExit(chunk) == chunk.finished

\* lines 236-252: the entry is read, the chunk is yielded and the loop ends or
\* goes on; a missing entry raises KeyError, which generate_stream_gate does
\* not catch
Read(s) ==
    /\ pc[s] = "read"
    /\ IF group_id[s] \in DOMAIN running_seq_groups
       THEN LET chunk == Chunk(running_seq_groups[group_id[s]])
            IN  /\ Emit(s, chunk)
                /\ pc' = [pc EXCEPT ![s] = IF LoopExit(chunk) THEN "finished" ELSE "loop"]
       ELSE /\ pc' = [pc EXCEPT ![s] = "aborted"]
            /\ UNCHANGED outVars
    /\ UNCHANGED <<ctlVars, semVars, genVars>>

\* the client goes away before the generator is started, or while it is
\* suspended at the yield of line 250
Disconnect(s) ==
    /\ \/ pc[s] = "admitted"
       \/ pc[s] = "loop" /\ last[s] # NoChunk
    /\ pc' = [pc EXCEPT ![s] = "disconnected"]
    /\ stepped' = [stepped EXCEPT ![s] = FALSE]
    /\ UNCHANGED <<ctlVars, semVars, genVars, last, nErr, postFinal, call>>

\* release_model_semaphore, lines 322-323, run as the background task of a
\* response that completed or was disconnected (lines 336-338)
Release(s) ==
    /\ pc[s] \in {"finished", "failed", "disconnected"}
    /\ releases' = [releases EXCEPT ![s] = @ + 1]
    /\ LET w == model_semaphore.waiters
       IN  IF w = <<>>
           THEN /\ model_semaphore' = [model_semaphore EXCEPT !.value = @ + 1]
                /\ pc' = [pc EXCEPT ![s] = "closed"]
           ELSE /\ model_semaphore' = [model_semaphore EXCEPT !.value = @ + 1,
                                                              !.waiters = Tail(w)]
                /\ pc' = [pc EXCEPT ![s] = "closed", ![Head(w)] = "woken"]
    /\ UNCHANGED <<ctlVars, genVars, outVars>>

\* ------------------------------------- the request encoding, the emitted text
\* self.context_len, line 99
context_len == 2048
\* the default of params.get("max_new_tokens", 256), line 201
DefaultMaxNewTokens == 256
\* the cap of line 201
MaxNewTokensCap == 1024
\* the margin of line 207
SrcLenMargin == 8

Min(a, b) == IF a <= b THEN a ELSE b
Max(a, b) == IF a >= b THEN a ELSE b

\* Python's seq[i:]: a negative i counts from the end, and -0 is 0
PySliceFrom(seq, i) ==
    LET start == IF i < 0 THEN Max(Len(seq) + i, 0) ELSE Min(i, Len(seq))
    IN  SubSeq(seq, start + 1, Len(seq))

\* Python's seq[:j]: a negative j counts from the end, and -0 is 0
PySliceTo(seq, j) ==
    LET stop == IF j < 0 THEN Max(Len(seq) + j, 0) ELSE Min(j, Len(seq))
    IN  SubSeq(seq, 1, stop)

\* a request body without the key "max_new_tokens"
Absent == [given |-> FALSE, value |-> 0]

max_new_tokens_uncapped(requested) ==
    IF requested.given THEN requested.value ELSE DefaultMaxNewTokens

\* line 201: min(int(params.get("max_new_tokens", 256)), 1024), for a
\* requested value that is an integer
max_new_tokens(requested) ==
    Min(IF requested.given THEN requested.value ELSE DefaultMaxNewTokens,
        MaxNewTokensCap)

\* line 207
max_src_len(requested) == context_len - max_new_tokens(requested) - SrcLenMargin

Truncate_head(input_ids, requested) ==
    PySliceTo(input_ids, max_src_len(requested))

\* line 208: input_ids[-max_src_len:]
Truncate(input_ids, requested) ==
    PySliceFrom(input_ids, 0 - max_src_len(requested))

\* tokenizer(context).input_ids, line 204, of a prompt of n tokens: the
\* tokens are told apart by their position
Tokenize(n) == [i \in 1..n |-> i]

\* values of "max_new_tokens" and prompt lengths of the requests encoded
RequestedValues ==
    {Absent} \cup {[given |-> TRUE, value |-> v] :
                      v \in {-1, 0, 1, 256, 1000, 1023, 1024, 1025, 2000, 5000}}
PromptLengths == {0, 1, 40, 50, 1015, 1016, 1017, 1100, 2040, 2041, 2050}

\* generate_stream lines 199-214 for one request: the prompt ids that go into
\* the Sequence of line 222 and sampling_params.max_num_steps
Encode(requested, n) ==
    /\ call' = [op |-> "encode", requested |-> requested, prompt |-> n,
                input_ids |-> Truncate(Tokenize(n), requested),
                max_num_steps |-> max_new_tokens(requested)]
    /\ UNCHANGED <<ctlVars, semVars, pc, genVars, last, nErr, postFinal, stepped>>

\* the characters of the decoded texts
Chars == {"a", "b"}
Strings(n) == UNION {[1..k -> Chars] : k \in 0..n}
\* decoded texts, and the values of params.get("stop", None), line 202
Texts == Strings(MaxTextLen)
StopStrs == {[given |-> FALSE, str |-> <<>>]}
                \cup {[given |-> TRUE, str |-> x] : x \in Strings(MaxTextLen - 1)}

\* str.endswith
EndsWith(output, suffix) ==
    /\ Len(suffix) <= Len(output)
    /\ SubSeq(output, Len(output) - Len(suffix) + 1, Len(output)) = suffix

\* lines 241-243
StripStop(output, stop_str) ==
    IF stop_str.given /\ EndsWith(output, stop_str.str)
    THEN PySliceTo(output, 0 - Len(stop_str.str))
    ELSE output

\* generate_stream lines 240-243 for one decoded text
PostProcess(output, stop_str) ==
    /\ call' = [op |-> "stop", output |-> output, stop_str |-> stop_str,
                text |-> StripStop(output, stop_str)]
    /\ UNCHANGED <<ctlVars, semVars, pc, genVars, last, nErr, postFinal, stepped>>

\* __main__ from line 373 on
NextStartup ==
    \/ \E r \in RegisterResponses : Construct(r)
    \/ Serve

\* the heart_beat_worker thread
NextHeartBeat ==
    \/ HbTick
    \/ HbSend
    \/ \E r \in HeartBeatResponses : HbRecv(r)
    \/ HbBackoff
    \/ \E r \in RegisterResponses : HbRegister(r)

\* the endpoint: requests arrive, wait, are admitted, and their slot is
\* released when the response is over
NextAdmission ==
    \/ \E s \in Sess : Arrive(s)
    \/ \E s \in Sess : Woken(s)
    \/ \E s \in Sess : Disconnect(s)
    \/ \E s \in Sess : Release(s)

\* the generators of the admitted requests
NextGeneration ==
    \/ \E s \in Sess, p \in Params : Start(s, p)
    \/ \E s \in Sess : Check(s)
    \/ \E s \in Sess : Call(s)
    \/ \E s \in Sess, sched \in SUBSET GroupIds : EngineStep(s, sched)
    \/ \E s \in Sess : EngineStepOOM(s)
    \/ \E s \in Sess : FanOut(s)
    \/ \E s \in Sess : Read(s)

\* The worker serving requests. The heartbeat thread shares no variable with
\* the requests (it only reads the semaphore for the queue length it reports),
\* so it is left asleep here and scheduled in SpecCtl.
Next == NextStartup \/ NextAdmission \/ NextGeneration

Spec == Init /\ [][Next]_vars

\* The control plane: start-up, the heartbeat thread, and the admission of
\* requests whose generators are not scheduled, so that a request is over
\* only by its client leaving; such a client may send a further request.
NextCtl ==
    \/ NextStartup
    \/ NextHeartBeat
    \/ NextAdmission
    \/ \E s \in Sess : ArriveAgain(s)

SpecCtl == Init /\ [][NextCtl]_vars

\* The encoding of a request and the post-processing of a decoded text,
\* each applied to inputs of its own.
NextFn ==
    \/ \E requested \in RequestedValues, n \in PromptLengths : Encode(requested, n)
    \/ \E output \in Texts, stop_str \in StopStrs : PostProcess(output, stop_str)

SpecFn == Init /\ [][NextFn]_vars

\* ------------------------------------------------------------- properties
Holders == {s \in Sess : Holding(s)}
Ended(s) == pc[s] \in {"closed", "aborted"}
InLoop(s) == pc[s] \in {"loop", "call", "instep", "fanout", "read"}
IsPrefix(a, b) == Len(a) <= Len(b) /\ SubSeq(b, 1, Len(a)) = a

\* C1: at most limit_model_concurrency requests hold an admission slot (have
\* passed acquire() and not been released), however many requests arrive.
C1_AtMostNHolding == Cardinality(Holders) <= LimitModelConcurrency

\* all slots are held and a further request waits at acquire()
C1_Witness ==
    /\ Cardinality(Holders) = LimitModelConcurrency
    /\ \E s \in Sess : pc[s] = "waiting"

\* C2: every admitted request that has ended had its slot released exactly
\* once, whatever way it ended, and when all requests have ended the
\* semaphore is back at limit_model_concurrency.
C2_SlotsConserved ==
    /\ \A s \in Sess : releases[s] <= 1
    /\ \A s \in Sess : Ended(s) => releases[s] = 1
    /\ (\A s \in Sess : Ended(s)) => model_semaphore.value = LimitModelConcurrency

\* C3: at no time are two calls of server.step() executing.
C3_SingleFlight == Cardinality({s \in Sess : pc[s] = "instep"}) <= 1

\* C4: after the step of one request failed with OutOfMemoryError the other
\* requests still get engine steps: when one of them is at the loop's check
\* and no step is running or about to be called, the flag lets it call one.
C4_FailureIsolation ==
    \A s \in Sess :
        ( /\ oomBy # {}
          /\ s \notin oomBy
          /\ pc[s] = "loop"
          /\ \A o \in Sess : pc[o] \notin {"call", "instep"} )
        => ~is_server_running

\* C5: a request whose step raised OutOfMemoryError has emitted exactly one
\* chunk with error_code 1 and the server error message, as the last chunk of
\* its stream, and is neither run again nor submitted again.
C5_OomOneErrorChunk ==
    \A s \in Sess :
        s \in oomBy =>
            /\ nErr[s] = 1
            /\ last[s].error_code = 1
            /\ last[s].text = server_error_msg
            /\ ~postFinal[s]
            /\ nSubmit[s] = 1
            /\ pc[s] \in {"failed", "closed"}

\* a request failed that way and its response is over
C5_Witness == \E s \in Sess : s \in oomBy /\ pc[s] = "closed" /\ nErr[s] = 1

\* C6: once started, the heartbeat thread never ends, whatever the controller
\* answers.
C6_HeartbeatNeverStops == hb # "dead"

\* C7: after an answer exist = false exactly one register_worker call is made
\* before the next heartbeat, and after exist = true none.
C7_SelfHealing ==
    /\ regSince <= 1
    /\ lastAnswer \in {"none", "true"} => regSince = 0
    /\ (lastAnswer = "false" /\ hb \in {"sleep", "post", "await", "backoff"})
           => regSince = 1

\* the heartbeat after an answer exist = false is sent, one call after it
C7_Witness == lastAnswer = "false" /\ hb = "await" /\ regSince = 1

\* C8: with registration enabled exactly one register_worker call precedes
\* the heartbeat thread and serving, and without a 200 to it the worker
\* neither serves nor starts the thread; with no_register there is no call
\* and no heartbeat.
C8_StartupRegistration ==
    /\ startRegCalls <= 1
    /\ no_register =>
           startRegCalls = 0 /\ hb = "off" /\ regSince = 0 /\ lastAnswer = "none"
    /\ (~no_register /\ (main \in {"constructed", "serving"} \/ hb # "off"))
           => startRegCalls = 1 /\ startResp = "200"
    /\ startResp \notin {"none", "200"} =>
           main = "crashed" /\ hb = "off" /\ \A s \in Sess : pc[s] = "idle"

\* the worker registered, serves, and has a heartbeat under way
C8_Witness ==
    ~no_register /\ main = "serving" /\ hb = "await" /\ startRegCalls = 1

\* C9: the loop ends after, and only after, a chunk built from a finished
\* group: such a chunk is the last one, and after a chunk built from an
\* unfinished group the generator is still in its loop unless the client left.
C9_StreamEndsWhenFinished ==
    \A s \in Sess :
        /\ pc[s] = "finished" => last[s].error_code = 0 /\ last[s].finished
        /\ last[s].finished => pc[s] \in {"finished", "closed"}
        /\ ~postFinal[s]
        /\ (last[s].error_code = 0 /\ ~last[s].finished)
               => InLoop(s) \/ pc[s] \in {"disconnected", "closed"}

\* a response is over whose last chunk was built from a finished group
C9_Witness ==
    \E s \in Sess : pc[s] = "closed" /\ last[s].error_code = 0 /\ last[s].finished

\* C10: the token history of each chunk of a request extends the token
\* history of the chunk before it.
C10_Monotone ==
    [][\A s \in Sess :
          (last[s].error_code = 0 /\ last'[s].error_code = 0)
              => IsPrefix(last[s].tokens, last'[s].tokens)]_vars

\* C11: no request is rejected, and slots are granted first come, first
\* served: a request is admitted straight on arrival only when no earlier
\* request is still waiting for a slot.
C11_FirstComeFirstServed ==
    [][\A s \in Sess :
          (pc[s] \in {"idle", "closed"} /\ pc'[s] = "admitted")
              => \A t \in Sess : pc[t] \notin {"waiting", "woken"}]_vars

\* C12: the queue length that get_status and the heartbeat report is the
\* number of requests holding a slot plus the number of requests that have
\* arrived and not yet been given one; it is 0 before the first request.
C12_QueueLength ==
    /\ get_queue_length =
           Cardinality(Holders)
             + Cardinality({s \in Sess : pc[s] \in {"waiting", "woken"}})
    /\ (\A s \in Sess : pc[s] = "idle") => get_queue_length = 0

\* C13: for every requested max_new_tokens, 5000 and the default 256 among
\* them, max_num_steps of the submitted group is min(requested, 1024), and
\* so at most 1024.
C13_MaxNumStepsClamped ==
    call.op = "encode" =>
        LET asked == IF call.requested.given THEN call.requested.value ELSE 256
        IN  /\ call.max_num_steps = (IF asked <= 1024 THEN asked ELSE 1024)
            /\ call.max_num_steps <= 1024

C13_Witness ==
    /\ call.op = "encode"
    /\ call.requested = [given |-> TRUE, value |-> 5000]
    /\ call.max_num_steps = 1024

\* C14 as stated: with max_new_tokens 2000 the budget is 2048 - 2000 - 8 = 40
\* and a prompt of 50 tokens is submitted as its last 40 tokens.
C14_BudgetOfRequestedValue ==
    (call.op = "encode" /\ call.requested = [given |-> TRUE, value |-> 2000]
                        /\ call.prompt = 50)
        => call.input_ids = [i \in 1..40 |-> 10 + i]

\* C14: the budget is 2048 - min(max_new_tokens, 1024) - 8, so at least 1016;
\* a prompt longer than the budget is submitted as its last budget tokens and
\* a prompt within the budget unchanged, as the 50-token prompt of a request
\* with max_new_tokens 2000 is.
C14_KeepsMostRecent ==
    call.op = "encode" =>
        LET asked  == IF call.requested.given THEN call.requested.value ELSE 256
            budget == 2048 - (IF asked <= 1024 THEN asked ELSE 1024) - 8
            kept   == IF call.prompt > budget THEN budget ELSE call.prompt
        IN  /\ budget >= 1016
            /\ call.input_ids = [i \in 1..kept |-> call.prompt - kept + i]

C14_Witness ==
    /\ call.op = "encode"
    /\ call.requested = [given |-> TRUE, value |-> 2000]
    /\ call.prompt = 1017
    /\ call.input_ids = [i \in 1..1016 |-> 1 + i]

\* C15: for every stop string, the empty one included, the emitted text is
\* the decoded text without one trailing occurrence of the stop string when
\* the decoded text ends with it, and the decoded text otherwise.
C15_StopStringRemovedOnce ==
    call.op = "stop" =>
        call.text =
            IF call.stop_str.given /\ EndsWith(call.output, call.stop_str.str)
            THEN SubSeq(call.output, 1, Len(call.output) - Len(call.stop_str.str))
            ELSE call.output

\* C16: between two consecutive chunks of one request at least one engine
\* step has completed, also when the request found the step of another
\* request in flight and skipped its own.
C16_OneStepPerChunk ==
    [][\A s \in Sess :
          (pc[s] = "read" /\ pc'[s] \in {"loop", "finished"} /\ last[s].error_code = 0)
              => stepped[s]]_vars

\* C17: whenever a request reads its entry of running_seq_groups, the entry
\* exists.
C17_EntryExistsWhenRead ==
    \A s \in Sess : pc[s] = "read" => group_id[s] \in DOMAIN running_seq_groups

\* C18: is_server_running is true exactly when a server.step() is executing.
C18_FlagMeansStepRunning ==
    is_server_running <=> (\E s \in Sess : pc[s] = "instep")

\* C19: once a request is over the table holds no entry under its group id,
\* so the table never holds more entries than there are slots.
C19_TableHoldsActiveOnly ==
    /\ \A s \in Sess : pc[s] = "closed" => group_id[s] \notin DOMAIN running_seq_groups
    /\ Cardinality(DOMAIN running_seq_groups) <= LimitModelConcurrency

====
